---- MODULE Spec2Model ----
(***************************************************************************)
(* Model of the wasm bindings in src/src/lib.rs: the transaction           *)
(* interpreter (decode_transaction, decode_transaction_events), the        *)
(* signature verification adapter (verify_signature) and the unsigned      *)
(* message builder (create_unsigned_message_without_signature).            *)
(*                                                                         *)
(* Every exported function is stateless: the state of the model is the     *)
(* last call (its arguments), the value it returned, the wall clock and    *)
(* the readings of it the last call made.                                  *)
(***************************************************************************)
EXTENDS Integers, Sequences, FiniteSets, TLC

VARIABLES call, result, now, reads

vars == <<call, result, now, reads>>

(***************************************************************************)
(* Bounds of the model.                                                    *)
(***************************************************************************)
\* Longest outMessages array of a transaction.
MaxOut == 3
\* Largest wall-clock reading, in milliseconds after the first one.
MaxClock == 3

(***************************************************************************)
(* JavaScript values as the bindings see them.  A property read            *)
(* (js_sys::Reflect::get) yields a value or throws; a value is a string,   *)
(* undefined, or something else that is not a string.                      *)
(***************************************************************************)
\* A message body as it crosses the boundary: a string that is either the
\* base-64 serialization of a cell tree holding `words`, or not decodable.
Boc(words) == [ok |-> TRUE, words |-> words]
Garbage == [ok |-> FALSE, words |-> <<>>]

Prop(k, s) == [k |-> k, s |-> s]
Undefined == Prop("undefined", Garbage)
Throws == Prop("throws", Garbage)
Str(s) == Prop("string", s)

\* JsValue::is_string
is_string(p) == p.k = "string"

(***************************************************************************)
(* Results.  One record shape for every call.                              *)
(***************************************************************************)
NoResult ==
    [tag |-> "none", err |-> "", method |-> "", input |-> <<>>,
     output |-> <<>>, events |-> <<>>]
Err(e) == [NoResult EXCEPT !.tag = "Err", !.err = e]
None == [NoResult EXCEPT !.tag = "None"]
Some(m, i, o) ==
    [NoResult EXCEPT !.tag = "Some", !.method = m, !.input = i, !.output = o]
Events(es) == [NoResult EXCEPT !.tag = "Events", !.events = es]
IsErr(r) == r.tag = "Err"

(***************************************************************************)
(* The contract ABI the calls are made with.  Selectors are 32-bit words;  *)
(* a cell slice is the sequence of its words.  An external inbound body    *)
(* carries HeaderWords words (signature slot, time, expire) ahead of the   *)
(* selector; an internal one starts with the selector.                     *)
(***************************************************************************)
HeaderWords == 3

Functions ==
    << [name |-> "transfer", input_id |-> 1, output_id |-> 11, nin |-> 2, nout |-> 1],
       [name |-> "burn", input_id |-> 2, output_id |-> 12, nin |-> 1, nout |-> 0] >>

AbiEvents ==
    << [name |-> "Transfer", id |-> 21, n |-> 1],
       [name |-> "Burned", id |-> 22, n |-> 0] >>

\* utils::parse_slice: base64::decode, then deserialize_tree_of_cells; either
\* failure is an error, success is the slice of the root cell.
parse_slice(body) ==
    IF body.ok THEN [ok |-> TRUE, slice |-> body.words]
    ELSE [ok |-> FALSE, slice |-> <<>>]

\* nt_abi::read_function_id: the leading 32-bit word of the slice.
read_function_id(slice) ==
    IF Len(slice) >= 1 THEN [ok |-> TRUE, id |-> slice[1]]
    ELSE [ok |-> FALSE, id |-> 0]

\* The body of an inbound message behind its headers.
StripHeader(slice, internal) ==
    IF internal THEN [ok |-> TRUE, slice |-> slice]
    ELSE IF Len(slice) >= HeaderWords
         THEN [ok |-> TRUE, slice |-> SubSeq(slice, HeaderWords + 1, Len(slice))]
         ELSE [ok |-> FALSE, slice |-> <<>>]

\* Function::decode_input: selector must be the function's input selector and
\* the arguments must consume the body exactly.
decode_input(f, slice, internal) ==
    LET b == StripHeader(slice, internal)
        id == read_function_id(b.slice)
    IN  IF b.ok /\ id.ok /\ id.id = f.input_id /\ Len(b.slice) = 1 + f.nin
        THEN [ok |-> TRUE, tokens |-> Tail(b.slice)]
        ELSE [ok |-> FALSE, tokens |-> <<>>]

\* Function::decode_output, keyed by the output selector.
decode_output(f, slice) ==
    LET id == read_function_id(slice)
    IN  IF id.ok /\ id.id = f.output_id /\ Len(slice) = 1 + f.nout
        THEN [ok |-> TRUE, tokens |-> Tail(slice)]
        ELSE [ok |-> FALSE, tokens |-> <<>>]

\* Event::decode_input.
decode_event_input(e, slice) ==
    LET id == read_function_id(slice)
    IN  IF id.ok /\ id.id = e.id /\ Len(slice) = 1 + e.n
        THEN [ok |-> TRUE, tokens |-> Tail(slice)]
        ELSE [ok |-> FALSE, tokens |-> <<>>]

\* Contract::event_by_id: index of the event with that selector, 0 if none.
event_by_id(id) ==
    IF \E i \in 1..Len(AbiEvents) : AbiEvents[i].id = id
    THEN CHOOSE i \in 1..Len(AbiEvents) : AbiEvents[i].id = id
    ELSE 0

\* nt_abi::guess_method_by_input: the functions the hint allows whose input
\* selector is the body's; one candidate is the answer, several are tried in
\* declaration order and the first whose input decodes is; 0 when there is
\* none.  hint is "" (guess among all) or a function name.
Candidates(slice, hint, internal) ==
    LET b == StripHeader(slice, internal)
        id == read_function_id(b.slice)
    IN  { i \in 1..Len(Functions) :
            /\ hint \in {"", Functions[i].name}
            /\ b.ok /\ id.ok /\ id.id = Functions[i].input_id }

guess_method_by_input(slice, hint, internal) ==
    LET c == Candidates(slice, hint, internal)
        d == { i \in c : decode_input(Functions[i], slice, internal).ok }
    IN  IF Cardinality(c) = 1 THEN CHOOSE i \in c : TRUE
        ELSE IF d = {} THEN 0
        ELSE CHOOSE i \in d : \A j \in d : i <= j

\* nt_abi::process_raw_outputs: the first external outbound body that decodes
\* as the function's output supplies it; bodies that do not are passed over.
\* With none, a function without outputs yields no tokens, one with outputs
\* is an error.
RECURSIVE FirstOutput(_, _, _)
FirstOutput(bodies, f, i) ==
    IF i > Len(bodies) THEN [ok |-> FALSE, tokens |-> <<>>]
    ELSE IF decode_output(f, bodies[i]).ok THEN decode_output(f, bodies[i])
    ELSE FirstOutput(bodies, f, i + 1)

process_raw_outputs(bodies, f) ==
    LET o == FirstOutput(bodies, f, 1)
    IN  IF o.ok THEN o
        ELSE IF f.nout = 0 THEN [ok |-> TRUE, tokens |-> <<>>]
        ELSE [ok |-> FALSE, tokens |-> <<>>]

\* tokens_object::make_tokens_object: the tokens as a host object.
make_tokens_object(tokens) == tokens

(***************************************************************************)
(* The filter_map / collect pipelines over outMessages.  Each message      *)
(* yields "skip" (filter_map's None), "err" (Some(Err)) or "ok"            *)
(* (Some(Ok(slice))); collect::<Result<Vec<_>, _>> stops at the first      *)
(* error and otherwise keeps the slices in order.                          *)
(***************************************************************************)
Skip == [t |-> "skip", err |-> "", slice |-> <<>>]
StepErr(e) == [t |-> "err", err |-> e, slice |-> <<>>]
StepOk(slice) == [t |-> "ok", err |-> "", slice |-> slice]

ParsedBody(body) ==
    IF parse_slice(body).ok THEN StepOk(parse_slice(body).slice)
    ELSE StepErr("InvalidBoc")

\* A variant of the closure of decode_transaction that reads the body
\* before it looks at dst.
TxStepBodyFirst(message) ==
    IF message.body.k = "throws" THEN StepErr("JsException")
    ELSE IF ~is_string(message.body) THEN StepErr("MessageBodyExpected")
    ELSE IF ~parse_slice(message.body.s).ok THEN StepErr("InvalidBoc")
    ELSE IF message.dst.k = "throws" THEN StepErr("JsException")
    ELSE IF is_string(message.dst) THEN Skip
    ELSE ParsedBody(message.body.s)

\* The closure of decode_transaction.
TxStep(message) ==
    IF message.dst.k = "throws" THEN StepErr("JsException")
    ELSE IF is_string(message.dst) THEN Skip
    ELSE IF message.body.k = "throws" THEN StepErr("JsException")
    ELSE IF is_string(message.body) THEN ParsedBody(message.body.s)
    ELSE StepErr("MessageBodyExpected")

\* Variants of the closure of decode_transaction_events: one that fails on
\* a missing body as decode_transaction does, one that keeps the messages
\* with a string dst.
EvStepStrict(message) == TxStep(message)

EvStepAll(message) ==
    IF message.dst.k = "throws" THEN StepErr("JsException")
    ELSE IF message.body.k = "throws" THEN StepErr("JsException")
    ELSE IF is_string(message.body) THEN ParsedBody(message.body.s)
    ELSE Skip

\* The closure of decode_transaction_events.

EvStep(message) ==
    IF message.dst.k = "throws" THEN StepErr("JsException")
    ELSE IF is_string(message.dst) THEN Skip
    ELSE IF message.body.k = "throws" THEN StepErr("JsException")
    ELSE IF is_string(message.body) THEN ParsedBody(message.body.s)
    ELSE Skip

RECURSIVE Collect(_, _)
Collect(steps, i) ==
    IF i > Len(steps) THEN [err |-> "", bodies |-> <<>>]
    ELSE IF steps[i].t = "err" THEN [err |-> steps[i].err, bodies |-> <<>>]
    ELSE LET rest == Collect(steps, i + 1)
         IN  IF rest.err # "" THEN rest
             ELSE IF steps[i].t = "skip" THEN rest
             ELSE [err |-> "", bodies |-> <<steps[i].slice>> \o rest.bodies]

(***************************************************************************)
(* decode_transaction(transaction, contract_abi, method)                   *)
(***************************************************************************)
TxOutputs(c, f, input) ==
    LET tx == c.tx
        steps == [i \in 1..Len(tx.outMessages.items) |-> TxStep(tx.outMessages.items[i])]
        ext_out_msgs == Collect(steps, 1)
        output == process_raw_outputs(ext_out_msgs.bodies, f)
    IN  IF tx.outMessages.k # "array" THEN Err("ArrayExpected")
        ELSE IF ext_out_msgs.err # "" THEN Err(ext_out_msgs.err)
        ELSE IF ~output.ok THEN Err("OutputNotFound")
        ELSE Some(f.name, make_tokens_object(input), make_tokens_object(output.tokens))

TxMethod(c) ==
    LET in_msg == c.tx.inMessage
        internal == is_string(in_msg.src)
        in_msg_body == parse_slice(in_msg.body.s)
        m == guess_method_by_input(in_msg_body.slice, c.method, internal)
        input == decode_input(Functions[m], in_msg_body.slice, internal)
    IN  IF in_msg.body.k = "throws" THEN Err("JsException")
        ELSE IF ~is_string(in_msg.body) THEN None
        ELSE IF ~in_msg_body.ok THEN Err("InvalidBoc")
        ELSE IF m = 0 THEN None
        ELSE IF ~input.ok THEN Err("DecodeInput")
        ELSE TxOutputs(c, Functions[m], input.tokens)

\* A variant that validates outMessages before it looks at the inbound body.
decode_transaction_eager(c) ==
    IF ~c.tx.obj THEN Err("ObjectExpected")
    ELSE IF ~c.abi_ok THEN Err("InvalidAbi")
    ELSE IF c.tx.inMessage.k # "object" THEN Err("MessageExpected")
    ELSE IF c.tx.outMessages.k # "array" THEN Err("ArrayExpected")
    ELSE TxMethod(c)

decode_transaction(c) ==
    IF ~c.tx.obj THEN Err("ObjectExpected")
    ELSE IF ~c.abi_ok THEN Err("InvalidAbi")
    ELSE IF c.tx.inMessage.k # "object" THEN Err("MessageExpected")
    ELSE TxMethod(c)

(***************************************************************************)
(* decode_transaction_events(transaction, contract_abi)                    *)
(***************************************************************************)
\* The second filter_map: a body whose selector cannot be read, names no
\* event, or whose data does not decode contributes nothing.
RECURSIVE DecodeEvents(_, _)
DecodeEvents(bodies, i) ==
    IF i > Len(bodies) THEN <<>>
    ELSE LET id == read_function_id(bodies[i])
             e == IF id.ok THEN event_by_id(id.id) ELSE 0
             tokens == decode_event_input(AbiEvents[e], bodies[i])
         IN  IF e = 0 \/ ~tokens.ok THEN DecodeEvents(bodies, i + 1)
             ELSE <<[event |-> AbiEvents[e].name, data |-> make_tokens_object(tokens.tokens)]>>
                  \o DecodeEvents(bodies, i + 1)

decode_transaction_events(c) ==
    LET tx == c.tx
        steps == [i \in 1..Len(tx.outMessages.items) |-> EvStep(tx.outMessages.items[i])]
        ext_out_msgs == Collect(steps, 1)
    IN  IF ~tx.obj THEN Err("ObjectExpected")
        ELSE IF ~c.abi_ok THEN Err("InvalidAbi")
        ELSE IF tx.outMessages.k # "array" THEN Err("ArrayExpected")
        ELSE IF ext_out_msgs.err # "" THEN Err(ext_out_msgs.err)
        ELSE Events(DecodeEvents(ext_out_msgs.bodies, 1))

(***************************************************************************)
(* The transactions the interpreter is called with.                        *)
(***************************************************************************)
\* Cell slices of outbound bodies.
OutOk == <<11, 7>>      \* the output of transfer
EvtOk == <<21, 5>>      \* event Transfer with its data
Evt2Ok == <<22>>        \* event Burned (no data)
EvtBad == <<21>>        \* selector of Transfer, data missing
NoSel == <<>>           \* too short to hold a selector

Msg(dst, body) == [dst |-> dst, body |-> body]
Addr == Str(Garbage)    \* an address string; its content is never read

ExtBodies ==
    {Undefined, Str(Garbage)} \cup { Str(Boc(w)) : w \in {OutOk, EvtOk, Evt2Ok, EvtBad, NoSel} }
IntBodies == {Undefined, Throws, Str(Garbage), Str(Boc(EvtOk))}

OutMsgs ==
    { Msg(Undefined, b) : b \in ExtBodies } \cup { Msg(Addr, b) : b \in IntBodies }
        \cup { Msg(Throws, Str(Boc(EvtOk))) }

Arr(items) == [k |-> "array", items |-> items]
NotArr == [k |-> "undefined", items |-> <<>>]

InMsg(src, body) == [k |-> "object", src |-> src, body |-> body]
NoInMsg == [k |-> "undefined", src |-> Undefined, body |-> Undefined]

\* Inbound bodies: calls of transfer and burn, internal and external.
TransferInt == InMsg(Addr, Str(Boc(<<1, 8, 9>>)))
TransferExt == InMsg(Undefined, Str(Boc(<<0, 100, 160, 1, 8, 9>>)))
BurnInt == InMsg(Addr, Str(Boc(<<2, 4>>)))
InMatching == {TransferInt, TransferExt, BurnInt}
InOther ==
    { NoInMsg,
      InMsg(Addr, Undefined),                  \* no body
      InMsg(Addr, Throws),                     \* body getter throws
      InMsg(Addr, Str(Garbage)),               \* body not a cell tree
      InMsg(Addr, Str(Boc(<<9, 1>>))),         \* unknown selector
      InMsg(Addr, Str(Boc(<<>>))),             \* no selector
      InMsg(Addr, Str(Boc(<<1, 8>>))),         \* transfer, arguments truncated
      InMsg(Undefined, Str(Boc(<<1, 8, 9>>))) }  \* external, headers missing

Tx(obj, in, out) == [obj |-> obj, inMessage |-> in, outMessages |-> out]
Call(op, tx, abi_ok, method) ==
    [op |-> op, tx |-> tx, abi_ok |-> abi_ok, method |-> method]

Hints == {"", "transfer", "burn"}

(***************************************************************************)
(* The state machine.                                                      *)
(***************************************************************************)
\* No call is in progress: the host may make the next one.
Idle == call.op = "none"

Init ==
    /\ call = [op |-> "none"]
    /\ result = NoResult
    /\ now = 0
    /\ reads = <<>>

\* The host takes the returned value; the bindings keep nothing of the call.
Return ==
    /\ ~Idle
    /\ call' = [op |-> "none"]
    /\ result' = NoResult
    /\ reads' = <<>>
    /\ UNCHANGED now

DoDecodeTransaction(c) ==
    /\ call' = c
    /\ result' = decode_transaction(c)
    /\ UNCHANGED <<now, reads>>

\* The host calls decode_transaction: with every inbound message, hint and
\* outMessages array up to MaxOut; with a non-array outMessages; with
\* records that are no objects and an ABI that does not parse.
DecodeTransaction ==
    \/ Idle /\ \E in \in InMatching \cup InOther, h \in Hints, k \in 0..MaxOut :
          \E items \in [1..k -> OutMsgs] :
              DoDecodeTransaction(Call("decode_transaction", Tx(TRUE, in, Arr(items)), TRUE, h))
    \/ Idle /\ \E in \in InMatching \cup InOther, h \in Hints :
          DoDecodeTransaction(Call("decode_transaction", Tx(TRUE, in, NotArr), TRUE, h))
    \/ Idle /\ \E obj \in BOOLEAN, ok \in BOOLEAN, in \in {TransferInt, NoInMsg},
          out \in {Arr(<<>>), Arr(<<Msg(Undefined, Str(Boc(OutOk)))>>), NotArr} :
          DoDecodeTransaction(Call("decode_transaction", Tx(obj, in, out), ok, ""))

DoDecodeTransactionEvents(c) ==
    /\ call' = c
    /\ result' = decode_transaction_events(c)
    /\ UNCHANGED <<now, reads>>

\* The host calls decode_transaction_events, which never reads inMessage.
DecodeTransactionEvents ==
    \/ Idle /\ \E in \in {TransferInt, NoInMsg}, k \in 0..MaxOut : \E items \in [1..k -> OutMsgs] :
          DoDecodeTransactionEvents(
              Call("decode_transaction_events", Tx(TRUE, in, Arr(items)), TRUE, ""))
    \/ Idle /\ \E obj \in BOOLEAN, ok \in BOOLEAN, out \in {Arr(<<>>), NotArr} :
          DoDecodeTransactionEvents(
              Call("decode_transaction_events", Tx(obj, NoInMsg, out), ok, ""))

NextTx == DecodeTransaction \/ DecodeTransactionEvents \/ Return

SpecTx == Init /\ [][NextTx]_vars

(***************************************************************************)
(* Vocabulary of the properties.                                           *)
(***************************************************************************)
IsTx == call.op = "decode_transaction"
IsEv == call.op = "decode_transaction_events"
Items == call.tx.outMessages.items

RemoveAt(s, i) == SubSeq(s, 1, i - 1) \o SubSeq(s, i + 1, Len(s))
WithItems(c, items) == [c EXCEPT !.tx.outMessages.items = items]

HasDst(m) == is_string(m.dst)
NoDst(m) == ~is_string(m.dst)
\* An outbound message that is an ordinary record: no getter throws.
Plain(m) == m.dst.k # "throws" /\ m.body.k # "throws"
\* The body string does not hold a cell tree.
Corrupt(m) == is_string(m.body) /\ ~m.body.s.ok

\* The event a single outbound message carries, if any: its body is a cell
\* tree whose selector names a declared event and whose data decodes.
EventOf(m) ==
    LET w == m.body.s.words
        e == IF Len(w) >= 1 THEN event_by_id(w[1]) ELSE 0
    IN  IF is_string(m.body) /\ m.body.s.ok /\ e # 0 /\ Len(w) = 1 + AbiEvents[e].n
        THEN <<[event |-> AbiEvents[e].name, data |-> Tail(w)]>>
        ELSE <<>>

RECURSIVE EventsOf(_, _)
EventsOf(items, i) ==
    IF i > Len(items) THEN <<>> ELSE EventOf(items[i]) \o EventsOf(items, i + 1)

\* The record is well formed up to outMessages, which is an array.
EvWellFormed == IsEv /\ call.tx.obj /\ call.abi_ok /\ call.tx.outMessages.k = "array"

\* C1: event extraction is fault-isolating: with outMessages an array of
\* external messages with body strings, a corrupted body never makes
\* decode_transaction_events fail, and the events of all other messages are
\* returned in order.
C1_FaultIsolating ==
    (EvWellFormed /\ \A i \in 1..Len(Items) : Items[i].dst = Undefined /\ is_string(Items[i].body))
        => result = Events(EventsOf(Items, 1))

\* C2 as claimed: every outbound message with a decodable event body
\* contributes an entry, whether or not it has a string dst.
C2_AnyDestination ==
    (EvWellFormed /\ \A i \in 1..Len(Items) : Plain(Items[i]) /\ ~Corrupt(Items[i]))
        => result = Events(EventsOf(Items, 1))

\* C2 amended: a successful decode_transaction_events returns exactly the
\* events of the outbound messages that have no string dst, in order; a
\* message with a string dst contributes nothing.
C2_ExternalOnly ==
    (IsEv /\ result.tag = "Events")
        => result.events = EventsOf(SelectSeq(Items, NoDst), 1)

C2_Witness ==
    /\ IsEv /\ Len(Items) = 3
    /\ Items[1] = Msg(Addr, Str(Boc(EvtOk)))
    /\ Items[2] = Msg(Undefined, Str(Boc(Evt2Ok)))
    /\ Items[3] = Msg(Undefined, Str(Boc(EvtOk)))
    /\ result = Events(<<[event |-> "Burned", data |-> <<>>],
                         [event |-> "Transfer", data |-> <<5>>]>>)

\* An external outbound message whose body decodes as the output of the
\* method of that name.
Correct(m, name) ==
    /\ m.dst = Undefined /\ is_string(m.body) /\ m.body.s.ok
    /\ \E j \in 1..Len(Functions) :
          Functions[j].name = name /\ decode_output(Functions[j], m.body.s.words).ok

\* An external outbound message with a body string that is corrupted or does
\* not decode as the output of the method of that name.
Malformed(m, name) ==
    /\ m.dst = Undefined /\ is_string(m.body)
    /\ ~Correct(m, name)

\* C3: output correlation ignores malformed external outbound messages: a
\* decode_transaction that succeeds on a transaction holding the correct
\* output message returns the same method, input and output with a malformed
\* external message inserted before or after it.
C3_OrderIndependent ==
    IsTx =>
        \A i \in 1..Len(Items) :
            LET base == decode_transaction(WithItems(call, RemoveAt(Items, i)))
            IN  ( /\ base.tag = "Some"
                  /\ Malformed(Items[i], base.method)
                  /\ \E j \in 1..Len(Items) : j # i /\ Correct(Items[j], base.method) )
                => result = base

\* C4: outbound messages with a string dst take no part in decode_transaction:
\* the result is that of the same transaction without them, whatever their
\* body property is.
C4_InternalExcluded ==
    IsTx => result = decode_transaction(WithItems(call, SelectSeq(Items, NoDst)))

C4_Witness ==
    /\ IsTx /\ result.tag = "Some" /\ result.output = <<7>>
    /\ \E i \in 1..Len(Items) : HasDst(Items[i]) /\ Items[i].body = Throws
    /\ \E i \in 1..Len(Items) : HasDst(Items[i]) /\ Corrupt(Items[i])

\* The inbound body is a cell tree whose selector is that of no function the
\* hint allows.
NoMatch ==
    /\ call.tx.obj /\ call.abi_ok /\ call.tx.inMessage.k = "object"
    /\ is_string(call.tx.inMessage.body) /\ call.tx.inMessage.body.s.ok
    /\ Candidates(call.tx.inMessage.body.s.words, call.method,
                  is_string(call.tx.inMessage.src)) = {}

\* C5: no match is an absent result: decode_transaction returns None, never
\* an error, when the inbound body matches no function, whatever outMessages
\* holds.
C5_NoMatchIsNone == (IsTx /\ NoMatch) => result = None

C5_Witness ==
    /\ IsTx /\ NoMatch /\ result = None
    /\ call.tx.outMessages.k # "array"

\* The inbound body matched a method and its input decoded, so that
\* decode_transaction goes on to read outMessages.
Matched ==
    LET in == call.tx.inMessage
        internal == is_string(in.src)
        m == guess_method_by_input(in.body.s.words, call.method, internal)
    IN  /\ call.tx.obj /\ call.abi_ok /\ in.k = "object"
        /\ is_string(in.body) /\ in.body.s.ok
        /\ m # 0 /\ decode_input(Functions[m], in.body.s.words, internal).ok

\* An outbound message that is examined (no string dst, dst readable) and
\* has no body string.
Bodiless(m) == m.dst.k = "undefined" /\ m.body.k = "undefined"
HasBody(m) == ~Bodiless(m)

\* C9 as claimed: with a valid ABI, both operations report an error whenever
\* a required field is absent: a non-object transaction, a non-array
\* outMessages, an examined outbound message without a body string, and for
\* decode_transaction a non-object inMessage or an inMessage without a body
\* string.
C9_MissingFieldIsError ==
    ( /\ IsTx \/ IsEv
      /\ call.abi_ok
      /\ \/ ~call.tx.obj
         \/ call.tx.outMessages.k # "array"
         \/ \E i \in 1..Len(Items) : Bodiless(Items[i])
         \/ IsTx /\ call.tx.inMessage.k # "object"
         \/ IsTx /\ ~is_string(call.tx.inMessage.body) )
    => IsErr(result)

\* C9 amended: a non-object transaction is an error in both operations; in
\* decode_transaction a non-object inMessage is an error, an inMessage
\* without a body string yields None, and once a method is matched a
\* non-array outMessages or an examined outbound message without a body
\* string is an error; in decode_transaction_events a non-array outMessages
\* is an error and an examined outbound message without a body string is
\* skipped, the result being that of the transaction without it.
C9_BoundaryValidation ==
    /\ ((IsTx \/ IsEv) /\ ~call.tx.obj) => result = Err("ObjectExpected")
    /\ (IsTx /\ call.tx.obj /\ call.abi_ok /\ call.tx.inMessage.k # "object")
          => result = Err("MessageExpected")
    /\ (IsTx /\ call.tx.obj /\ call.abi_ok /\ call.tx.inMessage.k = "object"
             /\ call.tx.inMessage.body.k = "undefined")
          => result = None
    /\ (IsTx /\ Matched /\ call.tx.outMessages.k # "array")
          => result = Err("ArrayExpected")
    /\ (IsTx /\ Matched /\ \E i \in 1..Len(Items) : Bodiless(Items[i]))
          => IsErr(result)
    /\ (IsEv /\ call.tx.obj /\ call.abi_ok /\ call.tx.outMessages.k # "array")
          => result = Err("ArrayExpected")
    /\ IsEv => result = decode_transaction_events(WithItems(call, SelectSeq(Items, HasBody)))

C9_Witness ==
    /\ IsEv /\ Len(Items) = 2
    /\ Bodiless(Items[1])
    /\ Items[2] = Msg(Undefined, Str(Boc(EvtOk)))
    /\ result = Events(<<[event |-> "Transfer", data |-> <<5>>]>>)

(***************************************************************************)
(* verify_signature(public_key, data_hash, signature)                      *)
(*                                                                         *)
(* Strings are sequences of ASCII codes, byte strings sequences of         *)
(* 0..255.                                                                 *)
(***************************************************************************)
HashLen == 32
SignatureLen == 64
PublicKeyLen == 32

Bad == [ok |-> FALSE, bytes |-> <<>>]
Good(bytes) == [ok |-> TRUE, bytes |-> bytes]

\* Value of a hexadecimal digit, -1 for any other character.
HexVal(c) ==
    IF c >= 48 /\ c <= 57 THEN c - 48
    ELSE IF c >= 97 /\ c <= 102 THEN c - 87
    ELSE IF c >= 65 /\ c <= 70 THEN c - 55
    ELSE -1

HexChar(v) == IF v < 10 THEN 48 + v ELSE 87 + v

\* hex::encode: two lowercase digits per byte.
hex_encode(bytes) ==
    [i \in 1..(2 * Len(bytes)) |->
        LET b == bytes[(i + 1) \div 2]
        IN  IF i % 2 = 1 THEN HexChar(b \div 16) ELSE HexChar(b % 16)]

\* hex::decode: an odd length or a character that is no digit is an error.
hex_decode(str) ==
    IF Len(str) % 2 = 1 \/ \E i \in 1..Len(str) : HexVal(str[i]) < 0 THEN Bad
    ELSE Good([k \in 1..(Len(str) \div 2) |->
                 16 * HexVal(str[2 * k - 1]) + HexVal(str[2 * k])])

\* Value of a character of the standard base-64 alphabet, -1 for any other.
B64Val(c) ==
    IF c >= 65 /\ c <= 90 THEN c - 65
    ELSE IF c >= 97 /\ c <= 122 THEN c - 71
    ELSE IF c >= 48 /\ c <= 57 THEN c + 4
    ELSE IF c = 43 THEN 62
    ELSE IF c = 47 THEN 63
    ELSE -1

B64Char(v) ==
    IF v < 26 THEN 65 + v
    ELSE IF v < 52 THEN 71 + v
    ELSE IF v < 62 THEN v - 4
    ELSE IF v = 62 THEN 43
    ELSE 47

Pow2(n) == IF n = 0 THEN 1 ELSE IF n = 2 THEN 4 ELSE IF n = 4 THEN 16
           ELSE IF n = 6 THEN 64 ELSE IF n = 8 THEN 256 ELSE 1024

\* base64::encode: six bits per character, padded with '=' to a multiple of 4.
base64_encode(bytes) ==
    LET n == Len(bytes)
        nchars == (8 * n + 5) \div 6
        total == 4 * ((nchars + 3) \div 4)
        ByteAt(j) == IF j <= n THEN bytes[j] ELSE 0
    IN  [k \in 1..total |->
            IF k > nchars THEN 61
            ELSE LET off == 6 * (k - 1)
                     j == off \div 8 + 1
                     r == off % 8
                     two == 256 * ByteAt(j) + ByteAt(j + 1)
                 IN  B64Char((two \div Pow2(10 - r)) % 64)]

\* base64::decode: up to two trailing '=' are padding; every other character
\* must be of the alphabet, the length must not leave a lone character and
\* the bits past the last whole byte must be zero.
base64_decode(str) ==
    LET len == Len(str)
        pad == IF len >= 2 /\ str[len] = 61 /\ str[len - 1] = 61 THEN 2
               ELSE IF len >= 1 /\ str[len] = 61 THEN 1 ELSE 0
        n == len - pad
        nbytes == (6 * n) \div 8
        ValAt(j) == IF j <= n THEN B64Val(str[j]) ELSE 0
    IN  IF \/ \E i \in 1..n : B64Val(str[i]) < 0
           \/ n % 4 = 1
           \/ pad > 0 /\ len % 4 # 0
           \/ n % 4 = 2 /\ B64Val(str[n]) % 16 # 0
           \/ n % 4 = 3 /\ B64Val(str[n]) % 4 # 0
        THEN Bad
        ELSE Good([k \in 1..nbytes |->
                     LET off == 8 * (k - 1)
                         j == off \div 6 + 1
                         r == off % 6
                         two == 64 * ValAt(j) + ValAt(j + 1)
                     IN  (two \div Pow2(4 - r)) % 256])

\* utils::parse_public_key: the key as hexadecimal digits.
parse_public_key(str) ==
    LET d == hex_decode(str)
    IN  IF d.ok /\ Len(d.bytes) = PublicKeyLen THEN d ELSE Bad

\* The signature the holder of the key makes over a message: a stand-in for
\* ed25519 that is a function of the key and of every byte of the message.
Sign(pk, msg) ==
    [i \in 1..SignatureLen |->
        (3 * pk[((i - 1) % Len(pk)) + 1] + msg[((5 * i) % Len(msg)) + 1] + i) % 256]

\* ed25519_dalek::Verifier::verify(..).is_ok()
Verify(pk, msg, sig) == sig = Sign(pk, msg)

\* data_hash: hex first, base-64 when that fails.
decode_data_hash(str) ==
    IF hex_decode(str).ok THEN hex_decode(str) ELSE base64_decode(str)

\* signature: base-64 first, hex when that fails.
decode_signature(str) ==
    IF base64_decode(str).ok THEN base64_decode(str) ELSE hex_decode(str)

Bool(b) == [NoResult EXCEPT !.tag = IF b THEN "true" ELSE "false"]

\* A variant that does not check the length of the hash.
verify_signature_unchecked(c) ==
    LET public_key == parse_public_key(c.public_key)
        data_hash == decode_data_hash(c.data_hash)
        signature == decode_signature(c.signature)
    IN  IF ~public_key.ok THEN Err("InvalidPublicKey")
        ELSE IF ~data_hash.ok THEN Err("InvalidHashEncoding")
        ELSE IF ~signature.ok THEN Err("InvalidSignatureEncoding")
        ELSE IF Len(signature.bytes) # SignatureLen THEN Err("InvalidSignatureLength")
        ELSE Bool(Len(data_hash.bytes) > 0
                  /\ Verify(public_key.bytes, data_hash.bytes, signature.bytes))

verify_signature(c) ==
    LET public_key == parse_public_key(c.public_key)
        data_hash == decode_data_hash(c.data_hash)
        signature == decode_signature(c.signature)
    IN  IF ~public_key.ok THEN Err("InvalidPublicKey")
        ELSE IF ~data_hash.ok THEN Err("InvalidHashEncoding")
        ELSE IF Len(data_hash.bytes) # HashLen THEN Err("InvalidHashLength")
        ELSE IF ~signature.ok THEN Err("InvalidSignatureEncoding")
        ELSE IF Len(signature.bytes) # SignatureLen THEN Err("InvalidSignatureLength")
        ELSE Bool(Verify(public_key.bytes, data_hash.bytes, signature.bytes))

\* The byte strings the host holds and the strings it passes.
Pattern(n, a, b) == [i \in 1..n |-> (a * i + b) % 256]
Key1 == Pattern(PublicKeyLen, 7, 1)
Key2 == Pattern(PublicKeyLen, 11, 3)
Hash1 == Pattern(HashLen, 13, 0)
Hash2 == Pattern(HashLen, 17, 5)
Flip(sig) == [sig EXCEPT ![Len(sig)] = (sig[Len(sig)] + 1) % 256]

HashBytes == {Hash1, Hash2, SubSeq(Hash1, 1, HashLen - 1), Hash1 \o <<9>>}
SigBytes ==
    { Sign(Key1, Hash1), Sign(Key2, Hash1), Flip(Sign(Key1, Hash1)),
      SubSeq(Sign(Key1, Hash1), 1, SignatureLen - 1), Sign(Key1, Hash1) \o <<9>> }

Encode(enc, bytes) ==
    IF enc = "hex" THEN hex_encode(bytes)
    ELSE IF enc = "base64" THEN base64_encode(bytes)
    ELSE <<33, 33>> \o hex_encode(bytes)      \* "!!...": neither encoding

Encodings == {"hex", "base64", "none"}
KeyStrings == {hex_encode(Key1), hex_encode(Key2), hex_encode(Tail(Key1)), <<33>>}

\* hash, hash_enc, sig and sig_enc record how the host made the strings; the
\* bindings see only public_key, data_hash and signature.
SigCalls ==
    { [op |-> "verify_signature", public_key |-> k,
       data_hash |-> Encode(he, h), signature |-> Encode(se, s),
       hash |-> h, hash_enc |-> he, sig |-> s, sig_enc |-> se] :
        k \in KeyStrings, h \in HashBytes, he \in Encodings,
        s \in SigBytes, se \in Encodings }

VerifySignature ==
    Idle /\ \E c \in SigCalls :
        /\ call' = c
        /\ result' = verify_signature(c)
        /\ UNCHANGED <<now, reads>>

NextSig == VerifySignature \/ Return

SpecSig == Init /\ [][NextSig]_vars

IsSig == call.op = "verify_signature"

\* C6: a 32-byte hash and a 64-byte signature are accepted in hex and in
\* base-64 alike: under a well-formed key each of the four combinations of
\* encodings yields the verdict of the verifier on the bytes, never an error.
C6_EitherEncoding ==
    ( /\ IsSig
      /\ parse_public_key(call.public_key).ok
      /\ Len(call.hash) = HashLen /\ call.hash_enc \in {"hex", "base64"}
      /\ Len(call.sig) = SignatureLen /\ call.sig_enc \in {"hex", "base64"} )
    => result = Bool(Verify(parse_public_key(call.public_key).bytes, call.hash, call.sig))

\* Both strings decode; the bytes the bindings obtain from them.
SigDecoded ==
    /\ IsSig /\ parse_public_key(call.public_key).ok
    /\ decode_data_hash(call.data_hash).ok /\ decode_signature(call.signature).ok
GotHash == decode_data_hash(call.data_hash).bytes
GotSig == decode_signature(call.signature).bytes

\* C7: with a well-formed key and decodable strings, verify_signature returns
\* an invalid-length error exactly when the decoded hash is not 32 bytes or
\* the decoded signature is not 64 bytes, and otherwise true when the
\* signature matches and false, not an error, when it does not.
C7_FalseIsNotError ==
    SigDecoded =>
        /\ (result \in {Err("InvalidHashLength"), Err("InvalidSignatureLength")})
              <=> (Len(GotHash) # HashLen \/ Len(GotSig) # SignatureLen)
        /\ IsErr(result) <=> (Len(GotHash) # HashLen \/ Len(GotSig) # SignatureLen)
        /\ (Len(GotHash) = HashLen /\ Len(GotSig) = SignatureLen)
              => result = Bool(GotSig = Sign(parse_public_key(call.public_key).bytes, GotHash))

\* One byte of a matching signature flipped: false, not an error.
C7_Witness ==
    /\ SigDecoded
    /\ call.public_key = hex_encode(Key1) /\ GotHash = Hash1
    /\ GotSig = Flip(Sign(Key1, Hash1))
    /\ result = Bool(FALSE)

(***************************************************************************)
(* create_unsigned_message_without_signature(dst, contract_abi, method,    *)
(*                                           state_init, input, timeout)   *)
(***************************************************************************)
\* Contract::function: index of the function of that name, 0 if none.
function(name) ==
    IF \E i \in 1..Len(Functions) : Functions[i].name = name
    THEN CHOOSE i \in 1..Len(Functions) : Functions[i].name = name
    ELSE 0

\* ExpireAt::new_from_millis(Expiration::Timeout(timeout), time).timestamp.
\* The computation is the library's; what the bindings fix is its two
\* arguments, so the timestamp is kept as the application to them.
new_from_millis(timeout, time) == [timeout |-> timeout, time |-> time]

\* A variant that puts the clock reading itself in the expire header.
HeaderExpireNow(time, expire_at) ==
    [time |-> time, expire |-> new_from_millis(0, time), pubkey |-> "None"]

\* The header map: time, expire and an absent public key.
Header(time, expire_at) ==
    [time |-> time, expire |-> expire_at, pubkey |-> "None"]

\* Function::encode_input(header, input, internal, signature).
encode_input(f, header, input, internal, signature) ==
    [signature |-> signature, internal |-> internal, header |-> header,
     function_id |-> f.input_id, tokens |-> input]

Message(m, e) ==
    [tag |-> "Message", err |-> "", message |-> m, expireAt |-> e]
MsgErr(e) ==
    [tag |-> "Err", err |-> e, message |-> <<>>, expireAt |-> <<>>]

\* The message built from the clock reading `time`.
BuildMessage(c, time) ==
    LET f == Functions[function(c.method)]
        expire_at == new_from_millis(c.timeout, time)
        header == Header(time, expire_at)
        body == encode_input(f, header, c.input, FALSE, "None")
        message == [dst |-> c.dst, state_init |-> c.state_init, body |-> body]
    IN  Message(message, expire_at)

\* The error the parameters are rejected with, "" when they parse.
ParamsError(c) ==
    IF c.dst = "invalid" THEN "InvalidAddress"
    ELSE IF ~c.abi_ok THEN "InvalidAbi"
    ELSE IF function(c.method) = 0 THEN "FunctionNotFound"
    ELSE IF c.state_init = "invalid" THEN "InvalidStateInit"
    ELSE IF Len(c.input) # Functions[function(c.method)].nin THEN "InvalidInput"
    ELSE ""

MsgCalls ==
    { [op |-> "create_unsigned_message_without_signature", dst |-> d,
       abi_ok |-> ok, method |-> m, state_init |-> si, input |-> in,
       timeout |-> t] :
        d \in {"0:aa", "invalid"}, ok \in BOOLEAN,
        m \in {"transfer", "burn", "mint"},
        si \in {"None", "tvc", "invalid"},
        in \in {<<8, 9>>, <<4>>}, t \in {0, 60, 60000} }

\* chrono::Utc::now() is evaluated once, after the parameters have parsed.
CreateUnsignedMessage ==
    Idle /\ \E c \in MsgCalls :
        /\ call' = c
        /\ IF ParamsError(c) # ""
           THEN result' = MsgErr(ParamsError(c)) /\ reads' = <<>>
           ELSE result' = BuildMessage(c, now) /\ reads' = <<now>>
        /\ UNCHANGED now

\* Time passes between calls.
Tick ==
    /\ now < MaxClock
    /\ now' = now + 1
    /\ UNCHANGED <<call, result, reads>>

NextMsg == CreateUnsignedMessage \/ Tick \/ Return

SpecMsg == Init /\ [][NextMsg]_vars

Next ==
    \/ DecodeTransaction
    \/ DecodeTransactionEvents
    \/ VerifySignature
    \/ CreateUnsignedMessage
    \/ Tick
    \/ Return

Spec == Init /\ [][Next]_vars

IsMsg == call.op = "create_unsigned_message_without_signature"

\* C10: in every message built, the expire timestamp returned with the
\* message is the one in the expire header of its body, both are computed
\* from the caller's timeout and the clock reading that is the time header,
\* and that reading is the only one the call made.
C10_OneClockReading ==
    (IsMsg /\ result.tag = "Message") =>
        LET header == result.message.body.header
        IN  /\ result.expireAt = header.expire
            /\ header.expire = new_from_millis(call.timeout, header.time)
            /\ reads = <<header.time>>

C10_Witness ==
    /\ IsMsg /\ result.tag = "Message"
    /\ call.timeout = 60000 /\ reads = <<2>>
    /\ result.message.body.header.time = 2
    /\ result.expireAt = new_from_millis(60000, 2)
====
